---- MODULE Spec2Model ----
(***************************************************************************)
(* Model of Auto_Chinapress_Telegram: one periodic run of main() fetches   *)
(* articles through the fallback chain of chinapress.fetch_latest, sends   *)
(* the unseen ones through TelegramClient.send_message and records them in *)
(* the StateStore ledger (data/seen.json).  Runs follow one another and    *)
(* share the ledger file; a run may also be killed at any step.            *)
(***************************************************************************)
EXTENDS Integers, Sequences, FiniteSets, TLC

\* ------------------------------------------------------------------ bounds

\* Longest remote listing (feed entries, anchors, sitemap <url> nodes, posts).
MaxLen == 3

\* Largest MAX_ITEMS_PER_RUN value set explicitly in the environment.
MaxN == 2

\* Longest sitemap index (<sitemap> nodes).
MaxIndex == 2

\* --------------------------------------------------------------- constants

\* main.py: int(os.getenv("MAX_ITEMS_PER_RUN", "10"))
DefaultMaxItems == 10

\* main.py: fetch_latest(max_items=max_items_total * 3); chinapress.py: urls[:max_items * 3]
FetchFactor == 3

\* chinapress.py: len(title) < 6
MinTitleLen == 6

\* ------------------------------------------------------------------ values

None == "none"

\* Article URLs of the target site (same domain, article-like path).
Urls == {"u1", "u2"}

\* A link to another domain, and a same-domain category (non-article) page.
ExtUrl == "ext"
CatUrl == "cat"

\* A feed entry or REST post without link or title.
NoLink == ""

\* "chinapress.com.my" in url
SameDomain(u) == u \in Urls \cup {CatUrl}

\* re.search(r"/20\d{2}/", u) or re.search(r"[?&]p=\d+", u), and the home-page
\* variants of the same heuristic: the article URLs match, the others do not.
ArticleLike(u) == u \in Urls

Min(a, b) == IF a <= b THEN a ELSE b
Max(a, b) == IF a >= b THEN a ELSE b

Range(s) == {s[i] : i \in 1..Len(s)}

\* All sequences over S of length at most n.
SeqsUpTo(S, n) == UNION {[1..k -> S] : k \in 0..n}

\* Python s[:n], negative n included.
PySlice(s, n) ==
  IF n >= 0 THEN SubSeq(s, 1, Min(n, Len(s)))
  ELSE SubSeq(s, 1, Max(Len(s) + n, 0))

\* Python's string order on the strings of the model.
StrRank(x) ==
  CASE x = "7" -> 0
    [] x = "u1" -> 1
    [] x = "u2" -> 2
    [] x = "page-sitemap.xml" -> 4
    [] x = "post-sitemap1.xml" -> 5
    [] x = "post-sitemap2.xml" -> 6
    [] OTHER -> 7

\* sorted(self._seen) on a set.
RECURSIVE sorted(_)
sorted(S) ==
  IF S = {} THEN <<>>
  ELSE LET m == CHOOSE x \in S : \A y \in S : StrRank(x) <= StrRank(y)
       IN <<m>> \o sorted(S \ {m})

\* sorted(entries, reverse=True) on a list.
RECURSIVE sorted_reverse(_)
sorted_reverse(s) ==
  IF s = <<>> THEN <<>>
  ELSE LET i == CHOOSE k \in 1..Len(s) :
                  \A j \in 1..Len(s) : StrRank(s[k]) >= StrRank(s[j])
       IN <<s[i]>> \o sorted_reverse(SubSeq(s, 1, i - 1) \o SubSeq(s, i + 1, Len(s)))

\* ------------------------------------------------------- the ledger file

\* A file of the data directory: absent, or a document.  kind is the shape of
\* its text: "notjson" (no JSON), "partial" (a JSON list cut short), "list" (a
\* JSON list), "seen" (an object with a "seen" list), "seenscalar" (an object
\* whose "seen" is a number), "object" (an object without "seen"), "scalar".
Doc(k, xs) == [kind |-> k, items |-> xs]
Absent == Doc("absent", <<>>)

\* The JSON number 7 is written "#7"; str() of it is "7".
JsonNumber == "#7"
str(x) == IF x = JsonNumber THEN "7" ELSE x

Path == "seen.json"

\* save() writing the ledger in place.
TmpPathInPlace == "seen.json"

\* state_store.py: tmp_path = self.path + ".tmp"
TmpPath == "seen.json.tmp"

\* Ledger files a first run may find.
InitialLedgers ==
  {Absent, Doc("notjson", <<>>), Doc("scalar", <<>>), Doc("object", <<>>),
   Doc("seenscalar", <<>>), Doc("list", <<JsonNumber>>)}
  \cup {Doc("list", sorted(S)) : S \in SUBSET Urls}
  \cup {Doc("seen", sorted(S)) : S \in {{"u1"}, {"u1", "u2"}}}

\* StateStore.load: the set it leaves in memory and whether it logged a warning.
load(doc) ==
  CASE doc.kind = "absent" -> [seen |-> {}, warned |-> FALSE]
    [] doc.kind \in {"notjson", "partial"} -> [seen |-> {}, warned |-> TRUE]
    [] doc.kind = "list" ->
         [seen |-> {str(x) : x \in Range(doc.items)}, warned |-> FALSE]
    [] doc.kind = "seen" ->
         [seen |-> {str(x) : x \in Range(doc.items)}, warned |-> FALSE]
    [] doc.kind = "seenscalar" -> [seen |-> {}, warned |-> TRUE]
    [] OTHER -> [seen |-> {}, warned |-> FALSE]

\* has() that finds nothing.
has_nothing(s, key) == FALSE

\* StateStore.has
has(s, key) == key \in s

\* add() that starts the set afresh.
add_afresh(s, key) == {key}

\* StateStore.add
add(s, key) == s \cup {key}

\* os.replace(src, dst) on the directory fs.
os_replace(fs, src, dst) ==
  IF src = dst THEN fs ELSE [fs EXCEPT ![dst] = fs[src], ![src] = Absent]

\* ------------------------------------------------- acquisition strategies

\* What the remote site may serve.
FeedEntries == SeqsUpTo(Urls \cup {NoLink}, MaxLen)
Anchor(h, n) == [href |-> h, titleLen |-> n]
Anchors ==
  SeqsUpTo({Anchor(u, 8) : u \in Urls \cup {ExtUrl, CatUrl}} \cup {Anchor("u1", 3)}, MaxLen)
SitemapLocs == SeqsUpTo(Urls \cup {ExtUrl, CatUrl}, MaxLen)
Posts == SeqsUpTo(Urls \cup {NoLink}, MaxLen)

POST_SITEMAP == "post-sitemap.xml"
SITEMAP_INDEX == "sitemap_index.xml"
IndexLocs == {"page-sitemap.xml", "post-sitemap1.xml", "post-sitemap2.xml"}

\* "post-sitemap" in loc
IsPostSitemap(loc) == loc \in {"post-sitemap1.xml", "post-sitemap2.xml"}

\* fetch_from_rss: the first max_items entries, those with link and title.
fetch_from_rss(entries, max_items) ==
  SelectSeq(PySlice(entries, max_items), LAMBDA e : e # NoLink)

\* The anchor heuristic of fetch_from_home and fetch_from_home_playwright.
anchor_ok(a) ==
  /\ a.href # NoLink
  /\ SameDomain(a.href)
  /\ ArticleLike(a.href)
  /\ ~(a.titleLen < MinTitleLen)

\* The anchor loop: append, then stop at max_items.
RECURSIVE scan_anchors(_, _, _, _)
scan_anchors(anchors, i, acc, max_items) ==
  IF i > Len(anchors) THEN acc
  ELSE IF ~anchor_ok(anchors[i]) \/ anchors[i].href \in Range(acc)
       THEN scan_anchors(anchors, i + 1, acc, max_items)
       ELSE LET acc2 == Append(acc, anchors[i].href)
            IN IF Len(acc2) >= max_items THEN acc2
               ELSE scan_anchors(anchors, i + 1, acc2, max_items)

fetch_from_home(anchors, max_items) == scan_anchors(anchors, 1, <<>>, max_items)

\* fetch_from_home_playwright once the page is loaded: the same loop over the
\* rendered anchors.
fetch_from_home_playwright(anchors, max_items) == scan_anchors(anchors, 1, <<>>, max_items)

\* The post loop of fetch_from_wpjson.
RECURSIVE scan_posts(_, _, _, _)
scan_posts(data, i, acc, max_items) ==
  IF i > Len(data) THEN acc
  ELSE IF data[i] = NoLink THEN scan_posts(data, i + 1, acc, max_items)
       ELSE LET acc2 == Append(acc, data[i])
            IN IF Len(acc2) >= max_items THEN acc2
               ELSE scan_posts(data, i + 1, acc2, max_items)

\* fetch_from_wpjson on the posts the server answered with (per_page is a
\* request parameter; what comes back is the server's choice).
fetch_from_wpjson(data, max_items) == scan_posts(data, 1, <<>>, max_items)

\* _parse_sitemap_urls on a parsed document: the same-domain <loc> values.
parse_sitemap_urls(locs) == SelectSeq(locs, SameDomain)

\* The article loop of fetch_from_sitemap over urls[:max_items * 3].
RECURSIVE scan_urls(_, _, _, _)
scan_urls(urls, i, acc, max_items) ==
  IF i > Len(urls) THEN acc
  ELSE IF ~ArticleLike(urls[i]) THEN scan_urls(urls, i + 1, acc, max_items)
       ELSE LET acc2 == Append(acc, urls[i])
            IN IF Len(acc2) >= max_items THEN acc2
               ELSE scan_urls(urls, i + 1, acc2, max_items)

sitemap_articles(urls, max_items) ==
  scan_urls(PySlice(urls, max_items * FetchFactor), 1, <<>>, max_items)

\* The index loop of fetch_from_sitemap: the post sitemaps, latest first.
index_entries(locs) ==
  sorted_reverse(SelectSeq(locs, LAMBDA l : l # NoLink /\ IsPostSitemap(l)))

\* The chain with the REST strategy tried before the Static-HTML one.
StrategyOrderRestFirst == <<"rss", "sitemap", "wpjson", "home", "playwright">>

\* fetch_latest's chain, in the order of its try blocks.
StrategyOrder == <<"rss", "sitemap", "home", "wpjson", "playwright">>

NextStrategy(name) ==
  LET i == CHOOSE k \in 1..Len(StrategyOrder) : StrategyOrder[k] = name
  IN IF i < Len(StrategyOrder) THEN StrategyOrder[i + 1] ELSE None

\* The chain with no except clause around the REST strategy.
CaughtButRest(name) == name # "wpjson"

\* fetch_latest wraps every strategy in try / except Exception.
Caught(name) == TRUE

\* ------------------------------------------------------------------ state

VARIABLES
  pc,          \* where the process is: "idle", a step of main(), or how the run ended
  maxItems,    \* main: max_items_total
  seen,        \* StateStore._seen
  warned,      \* load() logged "Failed to load state"
  articles,    \* main: articles, the list fetch_latest returned
  idx,         \* main: position of the for loop in articles
  sentCount,   \* main: sent_count
  fs,          \* the data directory: Path and TmpPath
  calls,       \* fetch_latest: the strategies invoked so far, in order
  results,     \* fetch_latest: what each invoked strategy gave it
  caught,      \* fetch_latest: the strategy whose exception it has just caught
  smEntries,   \* fetch_from_sitemap: sorted(entries, reverse=True)
  smK,         \* fetch_from_sitemap: position in smEntries
  smTried,     \* fetch_from_sitemap: the document requested last and what it gave
  smResult,    \* fetch_from_sitemap: how it is about to end (a list, or an exception)
  raisedBy,    \* the call whose exception ended the run
  ledger0,     \* history: the ledger file as the run found it
  loaded,      \* history: _seen as load() left it
  sentLog,     \* history: the URLs whose send_message returned, in order
  delivered,   \* history: the URLs whose send_message returned in any run
  failedUrl,   \* history: the URL whose send_message raised in this run
  driver,      \* fetch_from_home_playwright: p, the Playwright instance of the with block
  browser,     \* fetch_from_home_playwright: browser
  context,     \* fetch_from_home_playwright: context
  pwResult     \* fetch_from_home_playwright: how it is about to end, and what failed

vars ==
  <<pc, maxItems, seen, warned, articles, idx, sentCount, fs, calls, results, caught,
    smEntries, smK, smTried, smResult, raisedBy, ledger0, loaded, sentLog, delivered, failedUrl,
    driver, browser, context, pwResult>>

smVars == <<smEntries, smK, smTried, smResult>>
loopVars == <<idx, sentCount, sentLog, failedUrl>>
configVars == <<maxItems, warned, ledger0, loaded>>
pwVars == <<driver, browser, context, pwResult>>

Ended == {"idle", "done", "raised", "killed"}

NoRequest == [doc |-> None, outcome |-> None]
NoResult == [raised |-> FALSE, items |-> <<>>]
NoRender == [failed |-> None, items |-> <<>>]

Init ==
  /\ pc = "idle"
  /\ maxItems = 0
  /\ seen = {}
  /\ warned = FALSE
  /\ articles = <<>>
  /\ idx = 1
  /\ sentCount = 0
  /\ fs \in {[p \in {Path, TmpPath} |-> IF p = Path THEN d ELSE Absent] : d \in InitialLedgers}
  /\ calls = <<>>
  /\ results = <<>>
  /\ caught = None
  /\ smEntries = <<>>
  /\ smK = 1
  /\ smTried = NoRequest
  /\ smResult = NoResult
  /\ raisedBy = None
  /\ ledger0 = fs[Path]
  /\ loaded = {}
  /\ sentLog = <<>>
  /\ delivered = {}
  /\ failedUrl = None
  /\ driver = "none"
  /\ browser = "none"
  /\ context = "none"
  /\ pwResult = NoRender

\* MAX_ITEMS_PER_RUN: unset, not a number, or a number.
EnvMaxItems ==
  {[kind |-> "unset", n |-> 0], [kind |-> "bad", n |-> 0]}
  \cup {[kind |-> "int", n |-> k] : k \in 0..MaxN}

\* TelegramClient.__init__: the token and chat id are there, or one is missing
\* and TELEGRAM_DRY_RUN is off.  (A dry-run client behaves as one whose
\* send_message always returns: its runs are among those of "ok".)
EnvTelegram == {"ok", "missing"}

\* main, lines 17-22: read the configuration, load the ledger, build the client.
StartRun ==
  /\ pc \in Ended
  /\ \E env \in EnvMaxItems, tg \in EnvTelegram :
       LET l == load(fs[Path])
           bad == env.kind = "bad"
       IN /\ maxItems' = IF env.kind = "int" THEN env.n
                         ELSE IF bad THEN 0 ELSE DefaultMaxItems
          /\ seen' = IF bad THEN {} ELSE l.seen
          /\ loaded' = IF bad THEN {} ELSE l.seen
          /\ warned' = IF bad THEN FALSE ELSE l.warned
          /\ pc' = IF bad \/ tg = "missing" THEN "raised" ELSE StrategyOrder[1]
          /\ raisedBy' = IF bad THEN "int" ELSE IF tg = "missing" THEN "TelegramClient" ELSE None
  /\ articles' = <<>>
  /\ idx' = 1
  /\ sentCount' = 0
  /\ sentLog' = <<>>
  /\ calls' = <<>>
  /\ results' = <<>>
  /\ caught' = None
  /\ smEntries' = <<>>
  /\ smK' = 1
  /\ smTried' = NoRequest
  /\ smResult' = NoResult
  /\ ledger0' = fs[Path]
  /\ failedUrl' = None
  /\ driver' = "none" /\ browser' = "none" /\ context' = "none" /\ pwResult' = NoRender
  /\ UNCHANGED <<fs, delivered>>

\* fetch_latest: a strategy returned items, or raised.  A non-empty list is
\* returned to main at once (main, line 24, binds it to articles); after the
\* last strategy fetch_latest returns [].
StrategyReturn(name, raised, items) ==
  /\ results' = Append(results, [strategy |-> name, items |-> items])
  /\ IF raised /\ ~Caught(name)
     THEN pc' = "raised" /\ raisedBy' = name /\ articles' = articles /\ caught' = None
     ELSE /\ raisedBy' = raisedBy
          /\ caught' = IF raised THEN name ELSE None
          /\ IF items # <<>> THEN articles' = items /\ pc' = "fetched"
             ELSE /\ articles' = articles
                  /\ pc' = IF NextStrategy(name) # None THEN NextStrategy(name)
                           ELSE "fetched"

\* fetch_latest, lines 250-255: the Feed strategy.
FetchRss ==
  /\ pc = "rss"
  /\ calls' = Append(calls, "rss")
  /\ \/ StrategyReturn("rss", TRUE, <<>>)
     \/ \E entries \in FeedEntries :
          StrategyReturn("rss", FALSE, fetch_from_rss(entries, maxItems * FetchFactor))
  /\ UNCHANGED <<seen, fs, delivered>>
  /\ UNCHANGED <<smVars, loopVars, configVars, pwVars>>

\* fetch_latest, lines 263-268: the Static-HTML strategy.
FetchHome ==
  /\ pc = "home"
  /\ calls' = Append(calls, "home")
  /\ \/ StrategyReturn("home", TRUE, <<>>)
     \/ \E anchors \in Anchors :
          StrategyReturn("home", FALSE, fetch_from_home(anchors, maxItems * FetchFactor))
  /\ UNCHANGED <<seen, fs, delivered>>
  /\ UNCHANGED <<smVars, loopVars, configVars, pwVars>>

\* fetch_latest, lines 270-275: the REST strategy.
FetchWpjson ==
  /\ pc = "wpjson"
  /\ calls' = Append(calls, "wpjson")
  /\ \/ StrategyReturn("wpjson", TRUE, <<>>)
     \/ \E data \in Posts :
          StrategyReturn("wpjson", FALSE, fetch_from_wpjson(data, maxItems * FetchFactor))
  /\ UNCHANGED <<seen, fs, delivered>>
  /\ UNCHANGED <<smVars, loopVars, configVars, pwVars>>

\* fetch_from_home_playwright is left by an exception raised inside the with
\* block: the block is left first, then the except clause returns [].
PwFails(stage) ==
  /\ pwResult' = [failed |-> stage, items |-> <<>>]
  /\ pc' = "pw_exit"

\* fetch_from_home_playwright, lines 143-149: without playwright it returns []
\* at once; otherwise sync_playwright() is entered (or fails to start).
FetchPlaywright ==
  /\ pc = "playwright"
  /\ calls' = Append(calls, "playwright")
  /\ \/ pc' = "pw_return" /\ pwResult' = NoRender /\ driver' = driver
     \/ pc' = "pw_return" /\ pwResult' = [failed |-> "start", items |-> <<>>] /\ driver' = driver
     \/ pc' = "pw_launch" /\ pwResult' = NoRender /\ driver' = "running"
  /\ caught' = None
  /\ UNCHANGED <<seen, articles, fs, results, raisedBy, delivered, browser, context>>
  /\ UNCHANGED <<smVars, loopVars, configVars>>

\* fetch_from_home_playwright, lines 150-154: p.chromium.launch.
PwLaunch ==
  /\ pc = "pw_launch"
  /\ \/ browser' = "open" /\ pc' = "pw_context" /\ pwResult' = pwResult
     \/ PwFails("launch") /\ browser' = browser
  /\ UNCHANGED <<seen, articles, fs, calls, results, caught, raisedBy, delivered, driver, context>>
  /\ UNCHANGED <<smVars, loopVars, configVars>>

\* fetch_from_home_playwright, lines 155-158: browser.new_context.
PwNewContext ==
  /\ pc = "pw_context"
  /\ \/ context' = "open" /\ pc' = "pw_page" /\ pwResult' = pwResult
     \/ PwFails("new_context") /\ context' = context
  /\ UNCHANGED <<seen, articles, fs, calls, results, caught, raisedBy, delivered, driver, browser>>
  /\ UNCHANGED <<smVars, loopVars, configVars>>

\* fetch_from_home_playwright, lines 159-207: the page is opened and loaded and
\* its anchors are scanned; the loop ends at the last anchor or breaks at
\* max_items.  Navigation or an anchor's lookup may raise.
PwScan ==
  /\ pc = "pw_page"
  /\ \/ PwFails("goto")
     \/ PwFails("scan")
     \/ \E anchors \in Anchors :
          /\ pwResult' = [failed |-> None,
                          items |-> fetch_from_home_playwright(anchors, maxItems * FetchFactor)]
          /\ pc' = "pw_close"
  /\ UNCHANGED <<seen, articles, fs, calls, results, caught, raisedBy, delivered>>
  /\ UNCHANGED <<driver, browser, context, smVars, loopVars, configVars>>

\* fetch_from_home_playwright, line 208: context.close().
PwCloseContext ==
  /\ pc = "pw_close"
  /\ \/ context' = "closed" /\ pc' = "pw_close_browser" /\ pwResult' = pwResult
     \/ PwFails("context.close") /\ context' = context
  /\ UNCHANGED <<seen, articles, fs, calls, results, caught, raisedBy, delivered, driver, browser>>
  /\ UNCHANGED <<smVars, loopVars, configVars>>

\* fetch_from_home_playwright, line 209: browser.close().
PwCloseBrowser ==
  /\ pc = "pw_close_browser"
  /\ \/ browser' = "closed" /\ pc' = "pw_exit" /\ pwResult' = pwResult
     \/ PwFails("browser.close") /\ browser' = browser
  /\ UNCHANGED <<seen, articles, fs, calls, results, caught, raisedBy, delivered, driver, context>>
  /\ UNCHANGED <<smVars, loopVars, configVars>>

\* The same function with p = sync_playwright().start() in place of the with
\* block: nothing stops the Playwright instance when the block is left.
PwExitUnscoped ==
  /\ pc = "pw_exit"
  /\ pc' = "pw_return"
  /\ UNCHANGED <<seen, articles, fs, calls, results, caught, raisedBy, delivered>>
  /\ UNCHANGED <<driver, browser, context, pwResult, smVars, loopVars, configVars>>

\* fetch_from_home_playwright, line 149: the with block is left, by its end or
\* by an exception; the context manager stops the Playwright instance, and the
\* browser it launched and that browser's contexts end with it.
PwExit ==
  /\ pc = "pw_exit"
  /\ driver' = "stopped"
  /\ browser' = IF browser = "open" THEN "closed" ELSE browser
  /\ context' = IF context = "open" THEN "closed" ELSE context
  /\ pc' = "pw_return"
  /\ UNCHANGED <<seen, articles, fs, calls, results, caught, raisedBy, delivered, pwResult>>
  /\ UNCHANGED <<smVars, loopVars, configVars>>

\* fetch_latest, lines 277-283: fetch_from_home_playwright returns articles, or
\* [] from its except clause (lines 210-213); it never raises.
PwReturn ==
  /\ pc = "pw_return"
  /\ StrategyReturn("playwright", FALSE, pwResult.items)
  /\ pwResult' = NoRender
  /\ UNCHANGED <<seen, fs, calls, delivered, driver, browser, context>>
  /\ UNCHANGED <<smVars, loopVars, configVars>>

\* What a sitemap request may give: an HTTP error status (raise_for_status
\* raises), text that is no XML, or a document with these <loc> values.
SitemapDocs ==
  {[status |-> "http_error", locs |-> <<>>], [status |-> "bad_xml", locs |-> <<>>]}
  \cup {[status |-> "ok", locs |-> l] : l \in SitemapLocs}

IndexDocs ==
  {[status |-> "http_error", locs |-> <<>>], [status |-> "bad_xml", locs |-> <<>>]}
  \cup {[status |-> "ok", locs |-> l] : l \in SeqsUpTo(IndexLocs \cup {NoLink}, MaxIndex)}

\* _parse_sitemap_urls(url) on what the request gave (an HTTP error raises instead).
sitemap_urls(doc) == IF doc.status = "bad_xml" THEN <<>> ELSE parse_sitemap_urls(doc.locs)

Tried(name, doc) ==
  [doc |-> name,
   outcome |-> IF doc.status # "ok" THEN doc.status
               ELSE IF sitemap_urls(doc) = <<>> THEN "no_urls" ELSE "urls"]

\* fetch_from_sitemap, lines 337-348: the articles it builds from urls and returns.
SitemapReturns(urls) ==
  /\ smResult' = [raised |-> FALSE, items |-> sitemap_articles(urls, maxItems * FetchFactor)]
  /\ pc' = "sm_return"

\* fetch_from_sitemap is left by the exception of a request.
SitemapRaises ==
  /\ smResult' = [raised |-> TRUE, items |-> <<>>]
  /\ pc' = "sm_return"

\* fetch_from_sitemap, lines 313-314: the direct post sitemap.
SitemapDirect ==
  /\ pc = "sitemap"
  /\ calls' = Append(calls, "sitemap")
  /\ \E doc \in SitemapDocs :
       /\ smTried' = Tried(POST_SITEMAP, doc)
       /\ IF doc.status = "http_error" THEN SitemapRaises
          ELSE IF sitemap_urls(doc) # <<>> THEN SitemapReturns(sitemap_urls(doc))
          ELSE pc' = "sm_index" /\ smResult' = smResult
  /\ caught' = None
  /\ UNCHANGED <<seen, articles, fs, results, smEntries, smK, raisedBy, delivered>>
  /\ UNCHANGED <<loopVars, configVars, pwVars>>

\* fetch_from_sitemap, lines 316-331: the sitemap index.
SitemapIndex ==
  /\ pc = "sm_index"
  /\ \E doc \in IndexDocs :
       /\ smTried' = [doc |-> SITEMAP_INDEX, outcome |-> doc.status]
       /\ IF doc.status = "http_error" THEN SitemapRaises /\ smEntries' = smEntries
          ELSE IF doc.status = "bad_xml" THEN SitemapReturns(<<>>) /\ smEntries' = smEntries
          ELSE /\ smEntries' = index_entries(doc.locs)
               /\ IF smEntries' = <<>> THEN SitemapReturns(<<>>)
                  ELSE pc' = "sm_child" /\ smResult' = smResult
  /\ UNCHANGED <<seen, articles, fs, calls, results, caught, smK, raisedBy, delivered>>
  /\ UNCHANGED <<loopVars, configVars, pwVars>>

\* fetch_from_sitemap, lines 332-335: one pass of the loop over the post sitemaps.
SitemapChild ==
  /\ pc = "sm_child"
  /\ \E doc \in SitemapDocs :
       /\ smTried' = Tried(smEntries[smK], doc)
       /\ IF doc.status = "http_error" THEN SitemapRaises /\ smK' = smK
          ELSE IF sitemap_urls(doc) # <<>>
          THEN SitemapReturns(sitemap_urls(doc)) /\ smK' = smK
          ELSE /\ smK' = smK + 1
               /\ IF smK' > Len(smEntries) THEN SitemapReturns(<<>>)
                  ELSE pc' = "sm_child" /\ smResult' = smResult
  /\ UNCHANGED <<seen, articles, fs, calls, results, caught, smEntries, raisedBy, delivered>>
  /\ UNCHANGED <<loopVars, configVars, pwVars>>

\* fetch_latest, lines 257-262: fetch_from_sitemap is over; its frame is gone.
SitemapReturn ==
  /\ pc = "sm_return"
  /\ StrategyReturn("sitemap", smResult.raised, smResult.items)
  /\ smEntries' = <<>> /\ smK' = 1 /\ smTried' = NoRequest /\ smResult' = NoResult
  /\ UNCHANGED <<seen, fs, calls, delivered>>
  /\ UNCHANGED <<loopVars, configVars, pwVars>>

\* main, lines 25-29: nothing fetched ends the run with status 0; otherwise the
\* loop starts.  fetch_latest's frame is gone.
MainCheck ==
  /\ pc = "fetched"
  /\ pc' = IF articles = <<>> THEN "done" ELSE "loop"
  /\ calls' = <<>>
  /\ results' = <<>>
  /\ caught' = None
  /\ UNCHANGED <<seen, articles, fs, raisedBy, delivered>>
  /\ UNCHANGED <<smVars, loopVars, configVars, pwVars>>

\* main, lines 37-41: the loop is left; save() when something was sent.
AfterLoop(n) == IF n > 0 THEN "save" ELSE "done"

\* main, lines 30-33: one pass of the for loop up to the send_message call.
LoopStep ==
  /\ pc = "loop"
  /\ IF idx > Len(articles) THEN pc' = AfterLoop(sentCount) /\ idx' = idx
     ELSE IF has(seen, articles[idx]) THEN pc' = "loop" /\ idx' = idx + 1
     ELSE pc' = "send" /\ idx' = idx
  /\ UNCHANGED <<seen, articles, sentCount, sentLog, failedUrl, fs, raisedBy, delivered>>
  /\ UNCHANGED <<calls, results, caught, smVars, configVars, pwVars>>

\* send_message returned (sent, or logged in dry-run mode); main, lines 35-38.
SendReturn ==
  /\ pc = "send"
  /\ seen' = add(seen, articles[idx])
  /\ sentCount' = sentCount + 1
  /\ sentLog' = Append(sentLog, articles[idx])
  /\ delivered' = delivered \cup {articles[idx]}
  /\ IF sentCount' >= maxItems THEN pc' = AfterLoop(sentCount') /\ idx' = idx
     ELSE pc' = "loop" /\ idx' = idx + 1
  /\ UNCHANGED <<articles, failedUrl, fs, raisedBy>>
  /\ UNCHANGED <<calls, results, caught, smVars, configVars, pwVars>>

\* main catching the failure of send_message and going on with the loop.
SendRaiseSwallowed ==
  /\ pc = "send"
  /\ pc' = "loop"
  /\ idx' = idx + 1
  /\ failedUrl' = articles[idx]
  /\ UNCHANGED <<seen, articles, sentCount, sentLog, fs, raisedBy, delivered>>
  /\ UNCHANGED <<calls, results, caught, smVars, configVars, pwVars>>

\* send_message raised (the request failed, or resp.raise_for_status()).
SendRaise ==
  /\ pc = "send"
  /\ pc' = "raised"
  /\ raisedBy' = "send_message"
  /\ failedUrl' = articles[idx]
  /\ UNCHANGED <<seen, articles, idx, sentCount, sentLog, fs, delivered>>
  /\ UNCHANGED <<calls, results, caught, smVars, configVars, pwVars>>

\* StateStore.save, line 46: open(tmp_path, "w") truncates the temporary file.
SaveOpen ==
  /\ pc = "save"
  /\ fs' = [fs EXCEPT ![TmpPath] = Doc("partial", <<>>)]
  /\ pc' = "save_write"
  /\ UNCHANGED <<seen, articles, raisedBy, delivered>>
  /\ UNCHANGED <<calls, results, caught, smVars, loopVars, configVars, pwVars>>

\* StateStore.save, line 47: json.dump writes the sorted list piece by piece;
\* leaving the with block closes the file.
SaveWrite ==
  /\ pc = "save_write"
  /\ LET out == sorted(seen)
         w == fs[TmpPath].items
     IN IF Len(w) < Len(out)
        THEN /\ fs' = [fs EXCEPT ![TmpPath] = Doc("partial", Append(w, out[Len(w) + 1]))]
             /\ pc' = "save_write"
        ELSE /\ fs' = [fs EXCEPT ![TmpPath] = Doc("list", w)]
             /\ pc' = "save_replace"
  /\ UNCHANGED <<seen, articles, raisedBy, delivered>>
  /\ UNCHANGED <<calls, results, caught, smVars, loopVars, configVars, pwVars>>

\* StateStore.save, line 48: os.replace(tmp_path, self.path); main returns 0.
SaveReplace ==
  /\ pc = "save_replace"
  /\ fs' = os_replace(fs, TmpPath, Path)
  /\ pc' = "done"
  /\ UNCHANGED <<seen, articles, raisedBy, delivered>>
  /\ UNCHANGED <<calls, results, caught, smVars, loopVars, configVars, pwVars>>

\* The process is killed (or the machine restarts) at any step; its memory,
\* and with it every handle it held, is lost.
Kill ==
  /\ pc \notin Ended
  /\ pc' = "killed"
  /\ seen' = {} /\ articles' = <<>> /\ idx' = 1 /\ sentCount' = 0 /\ sentLog' = <<>>
  /\ calls' = <<>> /\ results' = <<>> /\ caught' = None
  /\ smEntries' = <<>> /\ smK' = 1 /\ smTried' = NoRequest /\ smResult' = NoResult
  /\ driver' = "none" /\ browser' = "none" /\ context' = "none" /\ pwResult' = NoRender
  /\ UNCHANGED <<fs, raisedBy, delivered, failedUrl, configVars>>

Next ==
  \/ StartRun
  \/ FetchRss
  \/ SitemapDirect
  \/ SitemapIndex
  \/ SitemapChild
  \/ SitemapReturn
  \/ FetchHome
  \/ FetchWpjson
  \/ FetchPlaywright
  \/ PwLaunch
  \/ PwNewContext
  \/ PwScan
  \/ PwCloseContext
  \/ PwCloseBrowser
  \/ PwExit
  \/ PwReturn
  \/ MainCheck
  \/ LoopStep
  \/ SendReturn
  \/ SendRaise
  \/ SaveOpen
  \/ SaveWrite
  \/ SaveReplace
  \/ Kill

Spec == Init /\ [][Next]_vars

\* The runs of a process that is never killed: every run ends by main
\* returning or by an exception leaving it.
NextRuns ==
  \/ StartRun
  \/ FetchRss
  \/ SitemapDirect
  \/ SitemapIndex
  \/ SitemapChild
  \/ SitemapReturn
  \/ FetchHome
  \/ FetchWpjson
  \/ FetchPlaywright
  \/ PwLaunch
  \/ PwNewContext
  \/ PwScan
  \/ PwCloseContext
  \/ PwCloseBrowser
  \/ PwExit
  \/ PwReturn
  \/ MainCheck
  \/ LoopStep
  \/ SendReturn
  \/ SendRaise
  \/ SaveOpen
  \/ SaveWrite
  \/ SaveReplace

SpecRuns == Init /\ [][NextRuns]_vars

\* ----------------------------------------------------------------- claims

\* The URLs a ledger document holds: a flat list, or an object with a "seen" list.
LedgerUrls(doc) ==
  IF doc.kind \in {"list", "seen"} THEN {str(x) : x \in Range(doc.items)} ELSE {}

Saving == {"save", "save_write", "save_replace"}

\* C1: over runs that share the ledger file, a URL whose send_message call
\* returned in some run is never passed to send_message again.
C1_AtMostOnce == pc = "send" => articles[idx] \notin delivered

\* C2: a URL that is in the ledger loaded at the start of a run is never passed
\* to send_message in that run, whatever the coordinator returned.
C2_Idempotence ==
  \A u \in LedgerUrls(ledger0) :
    /\ u \notin Range(sentLog)
    /\ pc = "send" => articles[idx] # u

C2_Witness ==
  /\ pc = "done"
  /\ "u1" \in LedgerUrls(ledger0)
  /\ articles = <<"u1", "u2">>
  /\ sentLog = <<"u2">>

\* The chain as the claims state it.
Chain == <<"rss", "sitemap", "home", "wpjson", "playwright">>

\* C3: fetch_latest invokes the strategies strictly in the order Feed, Sitemap,
\* Static-HTML, REST, Rendered-HTML; a strategy is invoked only if every earlier
\* one gave nothing; the result is the list of the first strategy that gave
\* something, and no strategy is invoked after it.
C3_FallbackOrder ==
  /\ calls = SubSeq(Chain, 1, Len(calls))
  /\ Len(results) <= Len(calls)
  /\ Len(calls) <= Len(results) + 1
  /\ \A i \in 1..Len(results) : results[i].strategy = calls[i]
  /\ \A i \in 1..Len(calls) : \A j \in 1..(i - 1) : results[j].items = <<>>
  /\ (Len(calls) > Len(results) \/ pc \in Range(Chain)) =>
       \A j \in 1..Len(results) : results[j].items = <<>>
  /\ pc = "fetched" =>
       /\ Len(results) = Len(calls)
       /\ articles = results[Len(results)].items
       /\ articles = <<>> => Len(results) = Len(Chain)

C3_Witness ==
  /\ pc = "fetched"
  /\ calls = <<"rss", "sitemap", "home">>
  /\ articles = <<"u2", "u1">>

\* C4: an exception of a strategy never leaves fetch_latest: the strategy counts
\* as having given nothing and the next one is tried.  When all five give
\* nothing, fetch_latest returns [] and the run ends cleanly: nothing is sent,
\* the data directory is not written, main returns 0.
C4_Inv ==
  /\ raisedBy \notin Range(Chain)
  /\ caught # None =>
       /\ results[Len(results)] = [strategy |-> caught, items |-> <<>>]
       /\ \E i \in 1..(Len(Chain) - 1) : Chain[i] = caught /\ pc = Chain[i + 1]
  /\ (pc = "fetched" /\ \A i \in 1..Len(results) : results[i].items = <<>>) =>
       articles = <<>>
  /\ (pc = "done" /\ articles = <<>>) =>
       sentLog = <<>> /\ sentCount = 0 /\ fs[Path] = ledger0 /\ raisedBy = None

C4_Step ==
  (pc \notin Ended /\ pc # "fetched" /\ articles = <<>>) \/ (pc = "fetched" /\ articles = <<>>) =>
     /\ fs' = fs
     /\ delivered' = delivered
     /\ (pc = "fetched" => pc' \in {"done", "killed"})

C4_CleanEmptyRun == []C4_Inv /\ [][C4_Step]_vars

C4_Witness ==
  /\ pc = "done"
  /\ articles = <<>>
  /\ raisedBy = None
  /\ ledger0 = Doc("list", <<"u1">>)
  /\ fs[Path] = ledger0

\* The first occurrences, in order, of the URLs of arts that are not in L.
RECURSIVE DistinctUnseen(_, _)
DistinctUnseen(arts, L) ==
  IF arts = <<>> THEN <<>>
  ELSE IF Head(arts) \in L THEN DistinctUnseen(Tail(arts), L)
  ELSE <<Head(arts)>> \o DistinctUnseen(Tail(arts), L \cup {Head(arts)})

\* C5: a run that completes without notifier failure has sent exactly the
\* first min(N, k) articles, in coordinator order, whose URL is not in the
\* loaded ledger, never more than N, and leaves a ledger equal to the loaded
\* set plus the URLs sent.
C5_SendsFirstN ==
  pc = "done" =>
    LET new == DistinctUnseen(articles, loaded)
    IN /\ sentLog = SubSeq(new, 1, Min(maxItems, Len(new)))
       /\ Len(sentLog) <= maxItems
       /\ LedgerUrls(fs[Path]) = loaded \cup Range(sentLog)

\* C6: the ledger path holds the complete previous content or the complete new
\* content at every point, during save() and after a crash at any of its steps.
C6_AtomicPersistence ==
  /\ fs[Path].kind # "partial"
  /\ pc # "done" => fs[Path] = ledger0
  /\ pc = "done" => fs[Path] = ledger0 \/ fs[Path] = Doc("list", sorted(seen))

C6_Witness ==
  /\ pc = "killed"
  /\ fs[TmpPath] = Doc("list", <<"u1", "u2">>)
  /\ fs[Path] = Doc("list", <<"u1">>)

\* A ledger document of a recognized shape: a flat list of strings, or an
\* object with a "seen" list.
Recognized(doc) ==
  doc.kind \in {"list", "seen"} /\ \A x \in Range(doc.items) : x # JsonNumber

\* C7: load() never raises; an absent ledger gives the empty set; a ledger that
\* does not parse or has an unrecognized shape gives the empty set and a
\* logged warning.
C7_CorruptRecovery ==
  (pc # "idle" /\ raisedBy # "int") =>
     /\ ledger0.kind = "absent" => loaded = {}
     /\ (ledger0.kind # "absent" /\ ~Recognized(ledger0)) => loaded = {} /\ warned

\* C8: the seen set only grows: within a run no operation removes a URL from
\* it, the URLs of the ledger file after a step include those before it, and
\* the file is rewritten only by a run that sent something.
C8_Inv == pc \in Saving => sentCount > 0 /\ sentLog # <<>>

C8_Step ==
  /\ (pc \notin Ended /\ pc' # "killed") => seen \subseteq seen'
  /\ LedgerUrls(fs[Path]) \subseteq LedgerUrls(fs'[Path])
  /\ fs'[Path] # fs[Path] => pc \in Saving /\ sentCount > 0

C8_AppendOnly == []C8_Inv /\ [][C8_Step]_vars

C8_Witness ==
  /\ pc = "done"
  /\ ledger0 = Doc("seen", <<"u1">>)
  /\ fs[Path] = Doc("list", <<"u1", "u2">>)

\* C9: a failure of send_message leaves main and ends the run: nothing more is
\* sent and the send is not retried; the failed URL, and the URL of every
\* article the loop had still to send, is absent from the ledger file, which
\* the run leaves as it found it; the next run does not find the failed URL in
\* its seen set, so its loop passes the article to send_message again.
C9_Inv ==
  /\ failedUrl # None => pc = "raised" /\ raisedBy = "send_message"
  /\ (pc = "raised" /\ raisedBy = "send_message") =>
       /\ failedUrl = articles[idx]
       /\ failedUrl \notin Range(sentLog)
       /\ fs[Path] = ledger0
       /\ failedUrl \notin LedgerUrls(fs[Path])
       /\ \A j \in (idx + 1)..Len(articles) :
            articles[j] \notin seen => articles[j] \notin LedgerUrls(fs[Path])

C9_Step ==
  /\ pc = "raised" => pc' \in {"raised", "rss"} /\ fs' = fs /\ delivered' = delivered
  /\ (pc = "raised" /\ failedUrl # None /\ pc' = "rss") => failedUrl \notin seen'
  /\ (pc = "loop" /\ idx <= Len(articles) /\ articles[idx] \notin seen) =>
       pc' \in {"send", "killed"}

C9_NotifierFailureAborts == []C9_Inv /\ [][C9_Step]_vars

C9_Witness ==
  /\ pc = "raised"
  /\ articles = <<"u1", "u2">>
  /\ sentLog = <<"u1">>
  /\ failedUrl = "u2"
  /\ fs[Path] = Absent

\* s is in descending string order.
Descending(s) == \A i \in 1..(Len(s) - 1) : StrRank(s[i]) >= StrRank(s[i + 1])

\* C10: whenever the direct post sitemap yields no URLs (not present, no XML,
\* no same-domain entry) the index is fetched, and its post-sitemap locations
\* are tried one at a time in descending order up to the first that yields
\* URLs; a document that yields no URLs never aborts the strategy.
C10_SitemapIndirection ==
  /\ (smTried.doc = POST_SITEMAP /\ smTried.outcome # "urls") => pc = "sm_index"
  /\ pc = "sm_child" =>
       /\ Descending(smEntries)
       /\ \A i \in 1..Len(smEntries) : IsPostSitemap(smEntries[i])
       /\ smK <= Len(smEntries)
  /\ (pc = "sm_return" /\ smTried.outcome # "urls") => ~smResult.raised

\* The steps of fetch_from_home_playwright between entering the with block and
\* leaving it.
InsideWith == {"pw_launch", "pw_context", "pw_page", "pw_close", "pw_close_browser", "pw_exit"}

\* C11: on every exit path of fetch_from_home_playwright after the browser has
\* been launched (normal return, early stop at the item limit, an exception in
\* context creation, navigation, anchor scanning or closing), the browser
\* context and the browser are closed when the function returns: whenever the
\* process is not inside the with block neither of them is open, a launched
\* browser is closed at the return, and so is a context that was created.
C11_BrowserTornDown ==
  /\ pc \notin InsideWith => browser # "open" /\ context # "open"
  /\ (pc = "pw_return" /\ driver # "none" /\ pwResult.failed # "launch") => browser = "closed"
  /\ (pc = "pw_return" /\ browser = "closed" /\ pwResult.failed # "new_context") =>
       context = "closed"
  /\ pc = "pw_return" => driver \in {"none", "stopped"}

\* The function returns [] after an anchor's lookup raised with the browser and
\* its context open: lines 208-209 were skipped, both are closed.
C11_Witness ==
  /\ pc = "pw_return"
  /\ pwResult = [failed |-> "scan", items |-> <<>>]
  /\ driver = "stopped"
  /\ browser = "closed"
  /\ context = "closed"

====
